---- MODULE Spec2Model ----
(***************************************************************************)
(* Model of cloudflare_dns_mapper.py: the hierarchy construction           *)
(* (build_hierarchy), the re-rooting pass and find_root_records, and the   *)
(* rendering loop of generate_mindmap with write_hierarchy.                *)
(*                                                                         *)
(* A Python str is modelled as a sequence of one-character strings, so     *)
(* that lower(), strip(), rstrip('.'), split(), the substring test and the *)
(* code-point order used by sorted() are computed, not assumed.            *)
(***************************************************************************)
EXTENDS Integers, Sequences, FiniteSets, TLC

\* ------------------------------------------------------------------ bounds

\* Largest number of records the record source supplies.
MaxRecs == 3

\* ----------------------------------------------------------------- strings

UpperLetters == <<"A","B","C","D","E","F","G","H","I","J","K","L","M",
                  "N","O","P","Q","R","S","T","U","V","W","X","Y","Z">>

LowerLetters == <<"a","b","c","d","e","f","g","h","i","j","k","l","m",
                  "n","o","p","q","r","s","t","u","v","w","x","y","z">>

Digits == <<"0","1","2","3","4","5","6","7","8","9">>

Range(s) == {s[i] : i \in DOMAIN s}

IndexOf(c, s) == CHOOSE i \in DOMAIN s : s[i] = c

\* ord(c): the code point Python compares characters by.
CodePoint(c) ==
  IF c \in Range(UpperLetters) THEN 64 + IndexOf(c, UpperLetters)
  ELSE IF c \in Range(LowerLetters) THEN 96 + IndexOf(c, LowerLetters)
  ELSE IF c \in Range(Digits) THEN 47 + IndexOf(c, Digits)
  ELSE IF c = " " THEN 32
  ELSE IF c = "#" THEN 35
  ELSE IF c = "-" THEN 45
  ELSE IF c = "." THEN 46
  ELSE 95   \* "_"

Chars == Range(UpperLetters) \cup Range(LowerLetters) \cup Range(Digits)
           \cup {" ", "#", "-", ".", "_"}

OrdTable == [c \in Chars |-> CodePoint(c)]

Ord(c) == OrdTable[c]

LowerTable ==
  [c \in Chars |->
     IF c \in Range(UpperLetters) THEN LowerLetters[IndexOf(c, UpperLetters)] ELSE c]

\* str.lower(), one character.
LowerChar(c) == LowerTable[c]

\* str.lower()
Lower(s) == [i \in DOMAIN s |-> LowerChar(s[i])]

IsSpace(c) == c = " "

RECURSIVE LStrip(_)
LStrip(s) == IF s # <<>> /\ IsSpace(Head(s)) THEN LStrip(Tail(s)) ELSE s

RECURSIVE RStrip(_)
RStrip(s) ==
  IF s # <<>> /\ IsSpace(s[Len(s)]) THEN RStrip(SubSeq(s, 1, Len(s) - 1)) ELSE s

\* str.strip()
Strip(s) == RStrip(LStrip(s))

\* str.rstrip('.'): every trailing dot goes.
RECURSIVE RStripDot(_)
RStripDot(s) ==
  IF s # <<>> /\ s[Len(s)] = "." THEN RStripDot(SubSeq(s, 1, Len(s) - 1)) ELSE s

\* str.split(): the maximal runs of non-whitespace characters, in order.
RECURSIVE SplitFrom(_, _, _)
SplitFrom(s, cur, acc) ==
  IF s = <<>> THEN (IF cur = <<>> THEN acc ELSE Append(acc, cur))
  ELSE IF IsSpace(Head(s))
       THEN SplitFrom(Tail(s), <<>>, IF cur = <<>> THEN acc ELSE Append(acc, cur))
       ELSE SplitFrom(Tail(s), Append(cur, Head(s)), acc)

Split(s) == SplitFrom(s, <<>>, <<>>)

\* `sub in s` on strings.
Contains(sub, s) ==
  \E i \in 0..(Len(s) - Len(sub)) : SubSeq(s, i + 1, i + Len(sub)) = sub

\* s < t on strings: lexicographic by code point, a proper prefix first.
StrLess(s, t) ==
  \E k \in 1..Len(t) :
    /\ \A j \in 1..(k - 1) : j <= Len(s) /\ s[j] = t[j]
    /\ (k > Len(s) \/ Ord(s[k]) < Ord(t[k]))

\* sorted() of a list of strings.
RECURSIVE Insert(_, _)
Insert(x, s) ==
  IF s = <<>> THEN <<x>>
  ELSE IF StrLess(x, Head(s)) THEN <<x>> \o s
  ELSE <<Head(s)>> \o Insert(x, Tail(s))

RECURSIVE Sorted(_)
Sorted(s) == IF s = <<>> THEN <<>> ELSE Insert(Head(s), Sorted(Tail(s)))

\* sorted() of a set of strings.
RECURSIVE SortedSet(_)
SortedSet(S) ==
  IF S = {} THEN <<>>
  ELSE LET m == CHOOSE x \in S : \A y \in S \ {x} : StrLess(x, y)
       IN  <<m>> \o SortedSet(S \ {m})

\* dict[k] = v
Put(d, k, v) == [x \in (DOMAIN d) \cup {k} |-> IF x = k THEN v ELSE d[x]]

EmptyDict == [x \in {} |-> <<>>]

\* ----------------------------------------------------------- normalization

\* name.lower().strip().rstrip('.'), as build_hierarchy and the re-rooting
\* pass normalize names and contents.
Normalize(s) == RStripDot(Strip(Lower(s)))

\* name.lower().rstrip('.'), as find_root_records normalizes names.
RootName(s) == RStripDot(Lower(s))

\* ------------------------------------------------------------------ filter

\* A string literal of the source, as a sequence of characters.
S_dmarc        == <<"_","d","m","a","r","c">>
S_domainkey    == <<"_","d","o","m","a","i","n","k","e","y">>
S_acme         == <<"_","a","c","m","e">>
S_verification == <<"_","v","e","r","i","f","i","c","a","t","i","o","n">>

txt_types == {"TXT", "SPF", "DKIM", "DMARC"}

verification_prefixes == {S_dmarc, S_domainkey, S_acme, S_verification}

\* The filter without its second comprehension: names are not looked at.
MutFilterTypesOnly(recs) ==
  LET KeepType(r) == r.type \notin txt_types
  IN  SelectSeq(recs, KeepType)

\* The two list comprehensions of generate_mindmap under exclude_txt.
FilterRecords(recs) ==
  LET KeepType(r) == r.type \notin txt_types
      KeepName(r) == ~ \E p \in verification_prefixes : Contains(p, Lower(r.name))
  IN  SelectSeq(SelectSeq(recs, KeepType), KeepName)

\* --------------------------------------------------------- build_hierarchy

\* The first loop of build_hierarchy: record_map[name] = record, the last
\* record of a name wins.
RECURSIVE RecordMapFrom(_, _, _)
RecordMapFrom(recs, i, rm) ==
  IF i > Len(recs) THEN rm
  ELSE RecordMapFrom(recs, i + 1, Put(rm, Normalize(recs[i].name), recs[i]))

RecordMap(recs) == RecordMapFrom(recs, 1, EmptyDict)

\* build_hierarchy taking the priority of an MX record for its host.
MutEdgeTargetMxPriority(type, content) ==
  IF type \in {"CNAME", "ALIAS", "DNAME"} THEN <<content>>
  ELSE IF type = "MX"
       THEN LET parts == Split(content)
            IN  IF Len(parts) >= 2 THEN <<RStripDot(Strip(parts[1]))>> ELSE <<>>
  ELSE IF type = "SRV"
       THEN LET parts == Split(content)
            IN  IF Len(parts) >= 4 THEN <<RStripDot(Strip(parts[4]))>> ELSE <<>>
  ELSE <<>>

\* The parent a record's content names, as a list of zero or one names.
EdgeTarget(type, content) ==
  IF type \in {"CNAME", "ALIAS", "DNAME"} THEN <<content>>
  ELSE IF type = "MX"
       THEN LET parts == Split(content)
            IN  IF Len(parts) >= 2 THEN <<RStripDot(Strip(parts[2]))>> ELSE <<>>
  ELSE IF type = "SRV"
       THEN LET parts == Split(content)
            IN  IF Len(parts) >= 4 THEN <<RStripDot(Strip(parts[4]))>> ELSE <<>>
  ELSE <<>>

\* children_map[parent].append(name) unless name is already listed.
AddChild(cm, parent, name) ==
  LET cur == IF parent \in DOMAIN cm THEN cm[parent] ELSE <<>>
  IN  Put(cm, parent, IF name \in Range(cur) THEN cur ELSE Append(cur, name))

\* One iteration of the second loop of build_hierarchy.
AddRecordEdges(cm, rm, record) ==
  LET name    == Normalize(record.name)
      content == Normalize(record.content)
      target  == EdgeTarget(record.type, content)
  IN  IF content = <<>> THEN cm
      ELSE IF target # <<>> /\ target[1] \in DOMAIN rm
           THEN AddChild(cm, target[1], name)
           ELSE cm

RECURSIVE ChildrenMapFrom(_, _, _, _)
ChildrenMapFrom(recs, i, rm, cm) ==
  IF i > Len(recs) THEN cm
  ELSE ChildrenMapFrom(recs, i + 1, rm, AddRecordEdges(cm, rm, recs[i]))

\* build_hierarchy: (children_map, record_map).
BuildHierarchy(recs) ==
  LET rm == RecordMap(recs)
  IN  [children_map |-> ChildrenMapFrom(recs, 1, rm, EmptyDict), record_map |-> rm]

\* ---------------------------------------------------------------- re-root

\* is_root of the re-rooting loop: name is in no child list.
IsRoot(name, cm) == ~ \E parent \in DOMAIN cm : name \in Range(cm[parent])

ReRootTypes == {"A", "AAAA", "CNAME", "ALIAS", "DNAME"}

\* One iteration of the re-rooting loop on (ip_parent_map, domains_with_ip_parents).
ReRootRecord(st, cm, record) ==
  LET name    == Normalize(record.name)
      content == Normalize(record.content)
      cur     == IF content \in DOMAIN st.ip_parent_map
                 THEN st.ip_parent_map[content] ELSE <<>>
  IN  IF IsRoot(name, cm) /\ content # <<>> /\ record.type \in ReRootTypes
      THEN [ip_parent_map |-> Put(st.ip_parent_map, content, Append(cur, name)),
            domains_with_ip_parents |-> st.domains_with_ip_parents \cup {name}]
      ELSE st

RECURSIVE ReRootFrom(_, _, _, _)
ReRootFrom(recs, i, cm, st) ==
  IF i > Len(recs) THEN st
  ELSE ReRootFrom(recs, i + 1, cm, ReRootRecord(st, cm, recs[i]))

ReRoot(recs, cm) ==
  ReRootFrom(recs, 1, cm, [ip_parent_map |-> EmptyDict, domains_with_ip_parents |-> {}])

\* find_root_records taking every record name for a root.
MutEveryNameIsRoot(recs, cm, rm) ==
  SortedSet({RootName(recs[i].name) : i \in DOMAIN recs})

\* find_root_records: the names that are in no child list, sorted.
FindRootRecords(recs, cm, rm) ==
  LET all_children == UNION {Range(cm[p]) : p \in DOMAIN cm}
      roots == {RootName(recs[i].name) : i \in DOMAIN recs} \ all_children
  IN  SortedSet(roots)

\* The final root list: roots not moved, then the keys of ip_parent_map,
\* as sorted(set(...)).
FinalRoots(recs, cm, rm, ipm, moved) ==
  LET notMoved(r) == r \notin moved
      kept == SelectSeq(FindRootRecords(recs, cm, rm), notMoved)
  IN  SortedSet(Range(kept \o SortedSet(DOMAIN ipm)))

\* ----------------------------------------------------------------- render

\* '  ' * level
RECURSIVE Indent(_)
Indent(level) == IF level = 0 THEN <<>> ELSE <<" ", " ">> \o Indent(level - 1)

\* The line with one indent too many.
MutLineIndent(level, name) == Indent(level + 1) \o <<"-", " ">> \o name

\* f"{indent}- {name}"
Line(level, name) == Indent(level) \o <<"-", " ">> \o name

TitleLine == <<"#"," ","D","N","S"," ","R","e","c","o","r","d"," ",
               "H","i","e","r","a","r","c","h","y">>

\* write_hierarchy calling the children as children_map lists them.
MutChildCallsUnsorted(name, level, cm) ==
  IF name \in DOMAIN cm
  THEN [i \in 1..Len(cm[name]) |-> [name |-> cm[name][i], level |-> level + 1]]
  ELSE <<>>

\* The calls `for child in sorted(children_map[name])` makes, in order.
ChildCalls(name, level, cm) ==
  IF name \in DOMAIN cm
  THEN LET kids == Sorted(cm[name])
       IN  [i \in 1..Len(kids) |-> [name |-> kids[i], level |-> level + 1]]
  ELSE <<>>

\* write_hierarchy without its guard: a visited name is written again.
MutNeverVisited(name, seen) == FALSE

\* `if name in visited: return`
AlreadyVisited(name, seen) == name \in seen

\* One call of write_hierarchy: the call on top of the stack of pending
\* calls returns at once on a visited name; otherwise it marks the name,
\* appends its line and its calls for the children come next, in order,
\* before the calls that were pending.
WriteHierarchy(st, cm) ==
  LET call == Head(st.stack)
  IN  IF AlreadyVisited(call.name, st.visited)
      THEN [st EXCEPT !.stack = Tail(st.stack)]
      ELSE [stack   |-> ChildCalls(call.name, call.level, cm) \o Tail(st.stack),
            visited |-> st.visited \cup {call.name},
            output  |-> Append(st.output, Line(call.level, call.name))]

\* A top-level call of write_hierarchy, to its return: visited starts empty.
RECURSIVE RunCalls(_, _)
RunCalls(st, cm) == IF st.stack = <<>> THEN st ELSE RunCalls(WriteHierarchy(st, cm), cm)

TopLevelCall(name, level, cm, output) ==
  RunCalls([stack |-> <<[name |-> name, level |-> level]>>, visited |-> {},
            output |-> output], cm).output

\* `for domain in sorted(ip_parent_map[root])`, each a top-level call at level 1.
RECURSIVE RenderDomains(_, _, _)
RenderDomains(ds, cm, output) ==
  IF ds = <<>> THEN output
  ELSE RenderDomains(Tail(ds), cm, TopLevelCall(Head(ds), 1, cm, output))

\* `for root in roots`
RECURSIVE RenderRoots(_, _, _, _)
RenderRoots(rs, cm, ipm, output) ==
  IF rs = <<>> THEN output
  ELSE LET root == Head(rs)
           out  == IF root \in DOMAIN ipm
                   THEN RenderDomains(Sorted(ipm[root]), cm, Append(output, Line(0, root)))
                   ELSE TopLevelCall(root, 0, cm, output)
       IN  RenderRoots(Tail(rs), cm, ipm, out)

\* generate_mindmap from build_hierarchy on: the output lines for a record list.
MindMap(recs) ==
  LET h  == BuildHierarchy(recs)
      cm == h.children_map
      r  == ReRoot(recs, cm)
      rs == FinalRoots(recs, cm, h.record_map, r.ip_parent_map, r.domains_with_ip_parents)
  IN  RenderRoots(rs, cm, r.ip_parent_map, <<TitleLine, <<>> >>)

\* '\n'.join(output_lines)
RECURSIVE Join(_)
Join(lines) ==
  IF lines = <<>> THEN <<>>
  ELSE IF Len(lines) = 1 THEN lines[1]
  ELSE lines[1] \o <<"\n">> \o Join(Tail(lines))

\* ------------------------------------------------------------ record source

Rec(n, t, c) == [name |-> n, type |-> t, content |-> c]

\* The lists of at most n records of S.
SeqsUpTo(S, n) == UNION {[1..k -> S] : k \in 0..n}

N_a       == <<"a">>
N_b       == <<"b">>
N_c       == <<"c">>
N_ip      == <<"9">>
N_www     == <<"w","w","w">>
N_mail    == <<"m","a","i","l">>
N_example == <<"e","x","a","m","p","l","e",".","c","o","m">>
N_noisy   == <<" ","E","x","a","m","p","l","e",".","c","o","m",".">>
N_acme    == <<"_","a","c","m","e",".","e","x","a","m","p","l","e",".","c","o","m">>
N_1234    == <<"1",".","2",".","3",".","4">>
C_mx      == <<"1","0"," ","e","x","a","m","p","l","e",".","c","o","m">>
C_mx_a    == <<"1", " ", "a">>

\* The records the record source draws from.
Pool ==
  { Rec(N_example, "CNAME", N_mail),  Rec(N_mail, "CNAME", N_example),
    Rec(N_example, "A", N_1234),      Rec(N_www, "CNAME", N_example),
    Rec(N_example, "TXT", <<>>),      Rec(N_www, "CNAME", N_www),
    Rec(N_noisy, "TXT", <<>>),        Rec(N_mail, "MX", C_mx),
    Rec(N_acme, "CNAME", N_example),  Rec(N_mail, "CNAME", N_acme) }

\* ------------------------------------------------------------ state machine

VARIABLES
  source,                   \* the records the zones of the account may hold
  fetched,                  \* the records the record source supplied
  all_records,              \* all_records: those records, then the filtered ones
  exclude_txt,              \* the --notxt flag
  pc,                       \* where generate_mindmap is
  children_map, record_map, \* what build_hierarchy returned
  ip_parent_map, domains_with_ip_parents,
  roots,
  output_lines,
  root_idx,                 \* position of `for root in roots`
  domains,                  \* what `for domain in sorted(...)` has left
  stack,                    \* pending calls of write_hierarchy, innermost first
  visited,                  \* the visited set of the running top-level call
  call_start,               \* len(output_lines) where the lines of the running
                            \* top-level call of write_hierarchy begin
  file                      \* what was written to output_file

vars == <<source, fetched, all_records, exclude_txt, pc, children_map, record_map, ip_parent_map,
          domains_with_ip_parents, roots, output_lines, root_idx, domains, stack,
          visited, call_start, file>>

InitFrom(pool) ==
  /\ source = pool
  /\ fetched = <<>>
  /\ all_records = <<>>
  /\ exclude_txt \in BOOLEAN
  /\ pc = "start"
  /\ children_map = EmptyDict
  /\ record_map = EmptyDict
  /\ ip_parent_map = EmptyDict
  /\ domains_with_ip_parents = {}
  /\ roots = <<>>
  /\ output_lines = <<>>
  /\ root_idx = 1
  /\ domains = <<>>
  /\ stack = <<>>
  /\ visited = {}
  /\ call_start = 0
  /\ file = <<>>

Init == InitFrom(Pool)

\* The loop over the zones: all_records.extend(records), whatever the record
\* source holds.
Fetch ==
  /\ pc = "start"
  /\ fetched' \in SeqsUpTo(source, MaxRecs)
  /\ all_records' = fetched'
  /\ pc' = "fetched"
  /\ UNCHANGED <<source, exclude_txt, children_map, record_map, ip_parent_map,
                 domains_with_ip_parents, roots, output_lines, root_idx, domains,
                 stack, visited, call_start, file>>

\* generate_mindmap, `if exclude_txt:` block.
Filter ==
  /\ pc = "fetched"
  /\ all_records' = IF exclude_txt THEN FilterRecords(all_records) ELSE all_records
  /\ pc' = "filtered"
  /\ UNCHANGED <<source, fetched, exclude_txt, children_map, record_map, ip_parent_map,
                 domains_with_ip_parents, roots, output_lines, root_idx, domains,
                 stack, visited, call_start, file>>

\* children_map, record_map = self.build_hierarchy(all_records)
Build ==
  /\ pc = "filtered"
  /\ LET h == BuildHierarchy(all_records)
     IN  /\ children_map' = h.children_map
         /\ record_map' = h.record_map
  /\ pc' = "built"
  /\ UNCHANGED <<source, fetched, all_records, exclude_txt, ip_parent_map, domains_with_ip_parents,
                 roots, output_lines, root_idx, domains, stack, visited, call_start,
                 file>>

\* The re-rooting loop over all_records.
ReRootPass ==
  /\ pc = "built"
  /\ LET r == ReRoot(all_records, children_map)
     IN  /\ ip_parent_map' = r.ip_parent_map
         /\ domains_with_ip_parents' = r.domains_with_ip_parents
  /\ pc' = "rerooted"
  /\ UNCHANGED <<source, fetched, all_records, exclude_txt, children_map, record_map, roots,
                 output_lines, root_idx, domains, stack, visited, call_start, file>>

\* roots = find_root_records(...), minus the moved, plus the targets; and the
\* two heading lines.
ComputeRoots ==
  /\ pc = "rerooted"
  /\ roots' = FinalRoots(all_records, children_map, record_map, ip_parent_map,
                         domains_with_ip_parents)
  /\ output_lines' = <<TitleLine, <<>> >>
  /\ call_start' = 2
  /\ root_idx' = 1
  /\ pc' = "render"
  /\ UNCHANGED <<source, fetched, all_records, exclude_txt, children_map, record_map,
                 ip_parent_map, domains_with_ip_parents, domains, stack, visited, file>>

\* `for root in roots:` takes the next root.
NextRoot ==
  /\ pc = "render"
  /\ stack = <<>>
  /\ domains = <<>>
  /\ root_idx <= Len(roots)
  /\ LET root == roots[root_idx]
     IN  IF root \in DOMAIN ip_parent_map
         THEN /\ output_lines' = Append(output_lines, Line(0, root))
              /\ domains' = Sorted(ip_parent_map[root])
              /\ call_start' = Len(output_lines) + 1
              /\ UNCHANGED <<stack, visited>>
         ELSE /\ stack' = <<[name |-> root, level |-> 0]>>
              /\ visited' = {}
              /\ call_start' = Len(output_lines)
              /\ UNCHANGED <<output_lines, domains>>
  /\ root_idx' = root_idx + 1
  /\ UNCHANGED <<source, fetched, all_records, exclude_txt, pc, children_map, record_map,
                 ip_parent_map, domains_with_ip_parents, roots, file>>

\* `for domain in sorted(ip_parent_map[root]):` takes the next domain.
NextDomain ==
  /\ pc = "render"
  /\ stack = <<>>
  /\ domains # <<>>
  /\ stack' = <<[name |-> Head(domains), level |-> 1]>>
  /\ visited' = {}
  /\ call_start' = Len(output_lines)
  /\ domains' = Tail(domains)
  /\ UNCHANGED <<source, fetched, all_records, exclude_txt, pc, children_map, record_map,
                 ip_parent_map, domains_with_ip_parents, roots, output_lines,
                 root_idx, file>>

\* The innermost pending call of write_hierarchy runs.
WriteCall ==
  /\ pc = "render"
  /\ stack # <<>>
  /\ LET st == WriteHierarchy([stack |-> stack, visited |-> visited,
                               output |-> output_lines], children_map)
     IN  /\ stack' = st.stack
         /\ visited' = st.visited
         /\ output_lines' = st.output
  /\ UNCHANGED <<source, fetched, all_records, exclude_txt, pc, children_map, record_map,
                 ip_parent_map, domains_with_ip_parents, roots, root_idx, domains,
                 call_start, file>>

\* f.write('\n'.join(output_lines))
WriteFile ==
  /\ pc = "render"
  /\ stack = <<>>
  /\ domains = <<>>
  /\ root_idx > Len(roots)
  /\ file' = Join(output_lines)
  /\ pc' = "done"
  /\ UNCHANGED <<source, fetched, all_records, exclude_txt, children_map, record_map, ip_parent_map,
                 domains_with_ip_parents, roots, output_lines, root_idx, domains,
                 stack, visited, call_start>>

Next ==
  \/ Fetch
  \/ Filter
  \/ Build
  \/ ReRootPass
  \/ ComputeRoots
  \/ NextRoot
  \/ NextDomain
  \/ WriteCall
  \/ WriteFile

Spec == Init /\ [][Next]_vars

\* A record source whose records share parents, targets and names.
OrderPool ==
  { Rec(N_b, "CNAME", N_a), Rec(N_c, "CNAME", N_a), Rec(N_a, "A", N_ip),
    Rec(N_b, "A", N_ip),    Rec(N_a, "TXT", <<>>),  Rec(N_c, "MX", C_mx_a) }

OrderInit == InitFrom(OrderPool)

C_mx_1      == <<"1">>
C_mx_dot    == <<"1", " ", "A", ".", " ", "2">>
C_srv_a     == <<"1", " ", "2", " ", "3", " ", "a">>
C_srv_3     == <<"1", " ", "2", " ", "3">>
C_srv_dot   == <<"1", " ", "2", " ", "3", " ", "b", ".", " ", "4">>
N_b_noisy   == <<"B", ".">>
C_a_noisy   == <<" ", "A", ".", " ">>
N_a_trail   == <<"a", " ">>

\* A record source with MX and SRV contents of every shape, targets written
\* in other case and with dots and blanks, and a target that is no record.
BuildPool ==
  { Rec(N_b, "MX", C_mx_a),   Rec(N_b, "MX", C_mx_1),     Rec(N_b, "MX", C_mx_dot),
    Rec(N_c, "SRV", C_srv_a), Rec(N_c, "SRV", C_srv_3),   Rec(N_c, "SRV", C_srv_dot),
    Rec(N_b_noisy, "CNAME", C_a_noisy), Rec(N_b, "CNAME", N_c),
    Rec(N_a, "AAAA", N_b),    Rec(N_a_trail, "DNAME", N_ip) }

BuildInit == InitFrom(BuildPool)

BuildSpec == BuildInit /\ [][Next]_vars

OrderSpec == OrderInit /\ [][Next]_vars

\* ------------------------------------------------------ reading the output

\* l is 2*d spaces, then "- ", then a name.
HasDepth(l, d) ==
  /\ Len(l) >= 2 * d + 2
  /\ \A k \in 1..(2 * d) : l[k] = " "
  /\ l[2 * d + 1] = "-"
  /\ l[2 * d + 2] = " "

\* A line write_hierarchy or the root loop appended.
IsNodeLine(l) == \E d \in 0..(Len(l) \div 2) : HasDepth(l, d)

LineDepth(l) == CHOOSE d \in 0..(Len(l) \div 2) : HasDepth(l, d)

LineName(l) == SubSeq(l, 2 * LineDepth(l) + 3, Len(l))

\* The positions of the lines of the output that show `name`.
LinesOf(name) ==
  {i \in 3..Len(output_lines) : LineName(output_lines[i]) = name}

\* The lines the running (or last) top-level call of write_hierarchy wrote.
CallLines == (call_start + 1)..Len(output_lines)

\* ----------------------------------------------------------------- C1

CyclePair == <<Rec(N_example, "CNAME", N_mail), Rec(N_mail, "CNAME", N_example)>>

IsCycleInput == fetched \in {CyclePair, <<CyclePair[2], CyclePair[1]>>}

\* C1 as stated: for the records A CNAME B and B CNAME A the run ends with
\* an output that shows A exactly once and B exactly once.
C1_CycleEachOnce ==
  (pc = "done" /\ IsCycleInput) =>
     /\ Cardinality(LinesOf(N_example)) = 1
     /\ Cardinality(LinesOf(N_mail)) = 1

\* ------------------------------------------------------------ termination

\* How far generate_mindmap is from its end.
PcRank ==
  CASE pc = "start"    -> 6
    [] pc = "fetched"  -> 5
    [] pc = "filtered" -> 4
    [] pc = "built"    -> 3
    [] pc = "rerooted" -> 2
    [] pc = "render"   -> 1
    [] pc = "done"     -> 0

\* Every name write_hierarchy can be called with.
NodeNames ==
  Range(roots) \cup (DOMAIN children_map)
    \cup UNION {Range(children_map[p]) : p \in DOMAIN children_map}
    \cup UNION {Range(ip_parent_map[k]) : k \in DOMAIN ip_parent_map}

\* What is left to do, most significant first: the stage, the roots and the
\* domains the loops have left, and for the running top-level call the names
\* not yet visited, each weighing more than the calls one visit can add, plus
\* the pending calls.
Variant ==
  <<PcRank,
    Len(roots) + 1 - root_idx,
    Len(domains),
    Cardinality(NodeNames \ visited) * (Cardinality(NodeNames) + 1) + Len(stack)>>

\* a < b in the lexicographic order of tuples of naturals, which is well founded.
LexLess(a, b) ==
  \E k \in DOMAIN a :
    /\ \A j \in 1..(k - 1) : a[j] = b[j]
    /\ a[k] < b[k]

\* Every step brings the end nearer.
Progress == LexLess(Variant', Variant) /\ \A k \in DOMAIN Variant : Variant'[k] >= 0

\* C1, amended: for the records A CNAME B and B CNAME A the run ends (every
\* step brings the end nearer), and the output shows neither A nor B: each
\* is the other's child, so there is no root, nothing is re-rooted, and only
\* the title and the blank line are written.
C1_CycleNotRendered ==
  [][IsCycleInput' =>
       /\ Progress
       /\ pc' = "done" =>
            /\ roots' = <<>>
            /\ LinesOf(N_example)' = {}
            /\ LinesOf(N_mail)' = {}
            /\ output_lines' = <<TitleLine, <<>> >>]_vars

C1_Witness ==
  /\ pc = "done"
  /\ IsCycleInput
  /\ children_map = (N_example :> <<N_mail>>) @@ (N_mail :> <<N_example>>)
  /\ file = TitleLine \o <<"\n">>

\* ----------------------------------------------------------------- C2

\* The lines write_hierarchy wrote: every node line but the line of a target
\* root, which the root loop writes itself.
WrittenByWriteHierarchy(i) ==
  ~ (LineDepth(output_lines[i]) = 0 /\ LineName(output_lines[i]) \in DOMAIN ip_parent_map)

ShownBy(name) == {i \in LinesOf(name) : WrittenByWriteHierarchy(i)}

\* The names a call of write_hierarchy on `name` reaches along children_map.
RECURSIVE ReachFrom(_, _)
ReachFrom(frontier, seen) ==
  IF frontier = {} THEN seen
  ELSE LET next == UNION {IF n \in DOMAIN children_map THEN Range(children_map[n]) ELSE {}
                          : n \in frontier}
       IN  ReachFrom(next \ (seen \cup frontier), seen \cup frontier)

Reach(name) == ReachFrom({name}, {})

\* The top-level calls of write_hierarchy that reach `name`: one per root
\* that is no target, one per entry of a target's list of domains.
TopLevelCallsReaching(name) ==
  Cardinality({r \in Range(roots) \ DOMAIN ip_parent_map : name \in Reach(r)})
  + Cardinality({kj \in {<<k, j>> : k \in DOMAIN ip_parent_map, j \in 1..MaxRecs} :
                   /\ kj[2] <= Len(ip_parent_map[kj[1]])
                   /\ name \in Reach(ip_parent_map[kj[1]][kj[2]])})

\* C2 as stated: the visited set is shared by the whole render pass, so
\* write_hierarchy writes no name more than once in the whole output.
C2_EachNameOnceInOutput ==
  \A i, j \in 3..Len(output_lines) :
    (i # j /\ WrittenByWriteHierarchy(i) /\ WrittenByWriteHierarchy(j))
      => LineName(output_lines[i]) # LineName(output_lines[j])

\* C2, amended: every top-level call of write_hierarchy (one per root that is
\* no target, one per domain listed under a target root) starts with an empty
\* visited set. Within one top-level call no name is written twice; in the
\* whole output a name is written once for every top-level call that reaches it.
C2_OncePerTopLevelCall ==
  /\ \A i, j \in CallLines :
       i # j => LineName(output_lines[i]) # LineName(output_lines[j])
  /\ pc = "done" =>
       \A n \in NodeNames : Cardinality(ShownBy(n)) = TopLevelCallsReaching(n)

\* A name that two top-level calls reach was written by both.
C2_Witness ==
  /\ pc = "done"
  /\ \E n \in NodeNames :
       /\ TopLevelCallsReaching(n) >= 2
       /\ Cardinality(ShownBy(n)) >= 2

\* ----------------------------------------------------------------- C7

\* A top-level call of write_hierarchy is running or has just returned.
InTopLevelCall == pc = "render" /\ (stack # <<>> \/ CallLines # {})

\* C7: generate_mindmap ends on every record list, cycles and self-references
\* included: every step brings the end nearer, because a top-level call of
\* write_hierarchy writes a line only for a name it had not visited, so it
\* writes as many lines as it has visited names and each pending call either
\* returns at once or uses up one of the names.
C7_RenderTerminates ==
  [][/\ Progress
     /\ InTopLevelCall' =>
          /\ {LineName(output_lines'[i]) : i \in CallLines'} = visited'
          /\ Cardinality(visited') = Cardinality(CallLines')
          /\ visited' \subseteq NodeNames']_vars

\* A call of write_hierarchy returns at once on a name that is its own
\* descendant: the cycle is cut.
C7_Witness ==
  /\ pc = "render"
  /\ stack # <<>>
  /\ Head(stack).name \in visited
  /\ \E c \in Range(children_map[Head(stack).name]) : Head(stack).name \in Reach(c)

\* ----------------------------------------------------------------- C3

\* The line a line hangs under: the nearest line before it one level up
\* (0 for a line at depth 0).
ParentLine(i) ==
  IF LineDepth(output_lines[i]) = 0 THEN 0
  ELSE CHOOSE j \in 3..(i - 1) :
         /\ LineDepth(output_lines[j]) = LineDepth(output_lines[i]) - 1
         /\ \A k \in (j + 1)..(i - 1) :
              LineDepth(output_lines[k]) >= LineDepth(output_lines[i])

Siblings(i, j) ==
  /\ LineDepth(output_lines[i]) = LineDepth(output_lines[j])
  /\ ParentLine(i) = ParentLine(j)

Permuted(recs, f) == [i \in DOMAIN recs |-> recs[f[i]]]

\* C3: the output lines do not depend on the order of the records: every
\* permutation of the record list, duplicate names included, gives the same
\* lines, the roots ascend, and the lines under one line (the domains of a
\* target root, the children of a node) ascend.
C3_OrderIndependent ==
  pc = "done" =>
    /\ \A f \in Permutations(DOMAIN all_records) :
         MindMap(Permuted(all_records, f)) = output_lines
    /\ \A i \in 1..(Len(roots) - 1) : StrLess(roots[i], roots[i + 1])
    /\ \A i, j \in 3..Len(output_lines) :
         (i < j /\ Siblings(i, j))
           => ~ StrLess(LineName(output_lines[j]), LineName(output_lines[i]))

\* Two children were listed by children_map out of order, and written in order.
C3_Witness ==
  /\ pc = "done"
  /\ \E p \in DOMAIN children_map :
       /\ Len(children_map[p]) >= 2
       /\ StrLess(children_map[p][2], children_map[p][1])
       /\ \E i, j \in 3..Len(output_lines) :
            /\ i < j
            /\ Siblings(i, j)
            /\ LineName(output_lines[i]) = children_map[p][2]
            /\ LineName(output_lines[j]) = children_map[p][1]

\* ----------------------------------------------------------------- C9

\* The names of the lines at depth 0, in order.
RECURSIVE TopLevelNames(_)
TopLevelNames(lines) ==
  IF lines = <<>> THEN <<>>
  ELSE IF LineDepth(Head(lines)) = 0
       THEN <<LineName(Head(lines))>> \o TopLevelNames(Tail(lines))
       ELSE TopLevelNames(Tail(lines))

HasParentLine(i) ==
  \E j \in 3..(i - 1) :
    /\ LineDepth(output_lines[j]) = LineDepth(output_lines[i]) - 1
    /\ \A k \in (j + 1)..(i - 1) :
         LineDepth(output_lines[k]) >= LineDepth(output_lines[i])

\* Line i shows a target root: depth 0 and a key of ip_parent_map.
IsTargetLine(i) ==
  LineDepth(output_lines[i]) = 0 /\ LineName(output_lines[i]) \in DOMAIN ip_parent_map

ExampleRecords == <<Rec(N_www, "CNAME", N_example), Rec(N_example, "A", N_1234)>>

IsExampleInput == fetched \in {ExampleRecords, <<ExampleRecords[2], ExampleRecords[1]>>}

ExampleOutput ==
  << TitleLine,
     <<>>,
     <<"-"," ","1",".","2",".","3",".","4">>,
     <<" "," ","-"," ","e","x","a","m","p","l","e",".","c","o","m">>,
     <<" "," "," "," ","-"," ","w","w","w">> >>

\* C9: after the title and the blank line the output is the depth-first
\* listing from the roots: the lines at depth 0 are the roots in order; a line
\* at depth d+1 hangs under the nearest line at depth d before it, is 2*d+2
\* spaces, "- " and the name, and shows a domain of that target root or a
\* child of that node; every domain of a target root hangs under its line, and
\* the children of a written node are written. For www CNAME example.com and
\* example.com A 1.2.3.4 the lines are 1.2.3.4, example.com one level down
\* and www two levels down.
C9_RenderStructure ==
  pc = "done" =>
    /\ Len(output_lines) >= 2
    /\ output_lines[1] = TitleLine
    /\ output_lines[2] = <<>>
    /\ \A i \in 3..Len(output_lines) : IsNodeLine(output_lines[i])
    /\ TopLevelNames(SubSeq(output_lines, 3, Len(output_lines))) = roots
    /\ \A i \in 3..Len(output_lines) :
         LineDepth(output_lines[i]) > 0 =>
           /\ HasParentLine(i)
           /\ LET p == LineName(output_lines[ParentLine(i)])
                  n == LineName(output_lines[i])
              IN  IF IsTargetLine(ParentLine(i))
                  THEN n \in Range(ip_parent_map[p])
                  ELSE p \in DOMAIN children_map /\ n \in Range(children_map[p])
    /\ \A i \in 3..Len(output_lines) :
         LET n == LineName(output_lines[i])
         IN  IF IsTargetLine(i)
             THEN \A k \in DOMAIN ip_parent_map[n] :
                    \E j \in (i + 1)..Len(output_lines) :
                      /\ ParentLine(j) = i
                      /\ LineName(output_lines[j]) = ip_parent_map[n][k]
             ELSE n \in DOMAIN children_map =>
                    \A c \in Range(children_map[n]) : ShownBy(c) # {}
    /\ IsExampleInput => output_lines = ExampleOutput

\* The example was rendered: www two levels below the target 1.2.3.4.
C9_Witness ==
  /\ pc = "done"
  /\ IsExampleInput
  /\ roots = <<N_1234>>
  /\ \E i \in 3..Len(output_lines) :
       LineDepth(output_lines[i]) = 2 /\ LineName(output_lines[i]) = N_www

\* ----------------------------------------------------------------- C5

\* The filter as the claim states it: by type, or by a token in the name.
RemovedByFilter(r) ==
  \/ r.type \in {"TXT", "SPF", "DKIM", "DMARC"}
  \/ \E p \in {S_dmarc, S_domainkey, S_acme, S_verification} : Contains(p, Lower(r.name))

RemovedByName(r) ==
  \E p \in {S_dmarc, S_domainkey, S_acme, S_verification} : Contains(p, Lower(r.name))

KeptNames == {Normalize(fetched[i].name) : i \in {j \in DOMAIN fetched : ~ RemovedByFilter(fetched[j])}}

HierarchyBuilt == pc \in {"built", "rerooted", "render", "done"}

\* C5 as stated: with exclude_txt the name of every record the filter
\* removed is absent from the name index, so it is the parent of no edge.
C5_FilteredNamesAbsent ==
  (exclude_txt /\ HierarchyBuilt) =>
    \A i \in DOMAIN fetched :
      RemovedByFilter(fetched[i]) =>
        /\ Normalize(fetched[i].name) \notin DOMAIN record_map
        /\ Normalize(fetched[i].name) \notin DOMAIN children_map

\* C5, amended: with exclude_txt the name index holds exactly the names of
\* the records the filter kept, and every parent of an edge is one of them.
\* The name of a removed record is absent from the name index unless a kept
\* record has the same normalized name (a TXT record beside an A record);
\* the name of a record removed for its name is always absent.
C5_OnlyKeptNamesAreParents ==
  (exclude_txt /\ HierarchyBuilt) =>
    /\ DOMAIN record_map = KeptNames
    /\ DOMAIN children_map \subseteq KeptNames
    /\ \A i \in DOMAIN fetched :
         RemovedByName(fetched[i]) =>
           /\ Normalize(fetched[i].name) \notin DOMAIN record_map
           /\ Normalize(fetched[i].name) \notin DOMAIN children_map

\* A record was removed for its type, a kept record has its name, and that
\* name is the parent of an edge.
C5_Witness ==
  /\ exclude_txt
  /\ HierarchyBuilt
  /\ \E i \in DOMAIN fetched :
       /\ RemovedByFilter(fetched[i])
       /\ Normalize(fetched[i].name) \in KeptNames
       /\ Normalize(fetched[i].name) \in DOMAIN children_map
       /\ children_map[Normalize(fetched[i].name)] # <<>>

\* ----------------------------------------------------------------- C8

\* Some record states the edge p -> c, the token of an MX or SRV content
\* read through Token.
EdgeStated(p, c, Token(_)) ==
  \E i \in DOMAIN all_records :
    LET r       == all_records[i]
        content == Normalize(r.content)
        parts   == Split(content)
    IN  /\ Normalize(r.name) = c
        /\ content # <<>>
        /\ \/ r.type \in {"CNAME", "ALIAS", "DNAME"} /\ content = p
           \/ r.type = "MX" /\ Len(parts) >= 2 /\ Token(parts[2]) = p
           \/ r.type = "SRV" /\ Len(parts) >= 4 /\ Token(parts[4]) = p
        /\ \E j \in DOMAIN all_records : Normalize(all_records[j].name) = p

HasEdge(p, c) == p \in DOMAIN children_map /\ c \in Range(children_map[p])

\* Every string that could be a parent: keys, contents and their tokens,
\* as written and without trailing dots.
ParentEnds ==
  (DOMAIN children_map)
    \cup {Normalize(all_records[i].content) : i \in DOMAIN all_records}
    \cup UNION {Range(Split(Normalize(all_records[i].content))) : i \in DOMAIN all_records}
    \cup UNION {{RStripDot(t) : t \in Range(Split(Normalize(all_records[i].content)))}
                : i \in DOMAIN all_records}

\* Every string that could be a child: the listed children and the names.
ChildEnds ==
  UNION {Range(children_map[p]) : p \in DOMAIN children_map}
    \cup {Normalize(all_records[i].name) : i \in DOMAIN all_records}

\* build_hierarchy has just returned.
JustBuilt == pc = "built"

NoChildTwice ==
  \A p \in DOMAIN children_map :
    \A i, j \in DOMAIN children_map[p] :
      i # j => children_map[p][i] # children_map[p][j]

AsWritten(t) == t

\* C8 as stated: p -> c is an edge iff a record named c with content states
\* it, the MX or SRV target being token[1] or token[3] as written, and p is a
\* record name; no child is listed twice.
C8_EdgesTokenAsWritten ==
  JustBuilt =>
    /\ \A p \in ParentEnds : \A c \in ChildEnds :
         HasEdge(p, c) <=> EdgeStated(p, c, AsWritten)
    /\ NoChildTwice

\* C8, amended: the same, the MX or SRV target being token[1] or token[3]
\* with its trailing dots stripped.
C8_EdgesTokenStripped ==
  JustBuilt =>
    /\ \A p \in ParentEnds : \A c \in ChildEnds :
         HasEdge(p, c) <=> EdgeStated(p, c, RStripDot)
    /\ NoChildTwice

\* MX and SRV records gave edges, one of them from a token with a dot, a
\* record with too few tokens and one with an unknown target gave none.
C8_Witness ==
  /\ JustBuilt
  /\ \E i, j, k \in DOMAIN all_records :
       /\ all_records[i].type = "MX"
       /\ Len(Split(Normalize(all_records[i].content))) >= 3
       /\ HasEdge(N_a, Normalize(all_records[i].name))
       /\ ~ EdgeStated(N_a, Normalize(all_records[i].name), AsWritten)
       /\ all_records[j].type \in {"MX", "SRV"}
       /\ Len(Split(Normalize(all_records[j].content))) \in {1, 3}
       /\ all_records[k].type = "DNAME"
       /\ Normalize(all_records[k].content) \notin DOMAIN record_map

\* ------------------------------------------------------------ C4, C6, C10

RecordNames == {Normalize(all_records[i].name) : i \in DOMAIN all_records}

Parents(n) == {p \in DOMAIN children_map : n \in Range(children_map[p])}

\* n and the names above it along children_map.
RECURSIVE AncestorsFrom(_, _)
AncestorsFrom(frontier, seen) ==
  IF frontier = {} THEN seen
  ELSE LET next == UNION {Parents(n) : n \in frontier}
       IN  AncestorsFrom(next \ (seen \cup frontier), seen \cup frontier)

\* Every chain of parents of n ends in a cycle: no name above n, nor n, is
\* without a parent.
OnlyCyclesAbove(n) == \A x \in AncestorsFrom({n}, {}) : Parents(x) # {}

\* The final roots, the domains listed under them, and all they reach.
Covered ==
  UNION {Reach(x) : x \in Range(roots)
                      \cup UNION {Range(ip_parent_map[k])
                                    : k \in Range(roots) \cap DOMAIN ip_parent_map}}

\* No record name differs from its normalized form by blanks around it:
\* find_root_records and build_hierarchy then agree on every name.
NoBlanksAroundNames ==
  \A i \in DOMAIN fetched : RootName(fetched[i].name) = Normalize(fetched[i].name)

\* C4: after re-rooting every record's normalized name is a final root, is
\* listed under a final root, or is reached from one of those along
\* children_map, unless every chain of its parents ends in a cycle.
C4_Coverage ==
  pc \in {"render", "done"} =>
    \A n \in RecordNames : n \in Covered \/ OnlyCyclesAbove(n)

\* C4 holds of the runs whose record names have no blanks around them.
C4_CoverageWithoutBlanks ==
  (pc \in {"render", "done"} /\ NoBlanksAroundNames) =>
    \A n \in RecordNames : n \in Covered \/ OnlyCyclesAbove(n)

InitialRoots == {n \in RecordNames : Parents(n) = {}}

Moved ==
  {n \in InitialRoots :
     \E i \in DOMAIN all_records :
       /\ Normalize(all_records[i].name) = n
       /\ all_records[i].type \in {"A", "AAAA", "CNAME", "ALIAS", "DNAME"}
       /\ Normalize(all_records[i].content) # <<>>}

RootListAsStated ==
  /\ domains_with_ip_parents = Moved
  /\ Range(roots) = (InitialRoots \ Moved) \cup DOMAIN ip_parent_map
  /\ \A i \in 1..(Len(roots) - 1) : StrLess(roots[i], roots[i + 1])
  /\ IsExampleInput => roots = <<N_1234>>

\* C6: the initial roots are the record names that are no one's child, the
\* moved names are the initial roots with a record of type A, AAAA, CNAME,
\* ALIAS or DNAME with content, and the final root list is the initial roots
\* without the moved ones together with the keys of ip_parent_map, ascending
\* and without duplicates; [1.2.3.4] for the example.
C6_RootList == pc \in {"render", "done"} => RootListAsStated

\* C6 holds of the runs whose record names have no blanks around them.
C6_RootListWithoutBlanks ==
  (pc \in {"render", "done"} /\ NoBlanksAroundNames) => RootListAsStated

\* The records with name and content replaced by their normalized forms.
Canonical(recs) ==
  [i \in DOMAIN recs |->
     [recs[i] EXCEPT !.name = Normalize(@), !.content = Normalize(@)]]

CanonicalRoots ==
  LET recs == Canonical(all_records)
      h    == BuildHierarchy(recs)
      r    == ReRoot(recs, h.children_map)
  IN  FinalRoots(recs, h.children_map, h.record_map, r.ip_parent_map,
                 r.domains_with_ip_parents)

SameAsCanonical ==
  /\ children_map = BuildHierarchy(Canonical(all_records)).children_map
  /\ roots = CanonicalRoots
  /\ output_lines = MindMap(Canonical(all_records))

\* C10: names and contents are normalized alike wherever they are compared,
\* so a record list and the list of its records in lowercase, without blanks
\* around and without trailing dots give the same relationship map, the same
\* root list and the same output.
C10_NormalizationConsistent == pc = "done" => SameAsCanonical

\* C10 holds of the runs whose record names have no blanks around them.
C10_ConsistentWithoutBlanks == (pc = "done" /\ NoBlanksAroundNames) => SameAsCanonical

====
